---- MODULE Spec2Model ----
\* Model of the coalescing atomic file writer of src/src/index.ts.
\*
\* The source file holds two implementations of class Writer: the one that
\* splits write() into #defer / #flush (lines 15-73) and the one that inlines
\* both branches in write() (lines 120-213).  `variant` records which of the
\* two classes the instance was constructed from.  They differ in one place:
\* the test that decides whether a buffered payload starts a new generation
\* (`this.#buffer !== null` against `if (next)`).
\*
\* JavaScript runs each continuation to completion, so every action below is
\* one synchronous block of the code: from the resumption after an `await`
\* to the next `await`.  The storage collaborator (writeFile, rename) is
\* modelled by the file system `fs` and by the completion events of the two
\* calls.  A promise is said to settle in the step that decides its fate.
EXTENDS Integers, Sequences, FiniteSets, TLC

\* ---------------------------------------------------------------- bounds
MaxCalls == 4

\* ------------------------------------------------------------- constants
Variants == {"flush", "inline"}
\* payloads a caller may pass; "" is the empty content
Contents == {"", "a"}
\* the value of an empty slot holding a Content
Null == "<null>"
\* content of the target before the first write
PreContent == "<pre>"
Absent == [data |-> Null, call |-> -1, complete |-> TRUE]

VARIABLES
  variant,     \* which Writer class was instantiated
  active,      \* #active
  current,     \* #current : promise whose [done, fail] pair is held, 0 = null
  waiting,     \* #waiting : promise whose [done, fail] pair is held, 0 = null
  queued,      \* #queued  : the shared promise, 0 = null
  buffer,      \* #buffer  : a Content or Null
  fs,          \* the two paths the writer owns: "tmp" and "target"
  gens,        \* every execution of the write-to-temp-and-rename sequence
  calls,       \* every write() call issued by a caller, in submission order
  promises,    \* every promise handed to a caller
  bufferCall   \* history: the call whose payload sits in #buffer, 0 = none

vars == <<variant, active, current, waiting, queued, buffer, fs, gens, calls,
          promises, bufferCall>>

\* ------------------------------------------------------------ helpers
\* JavaScript truthiness of a Content-or-null value: null and "" are falsy
Truthy(c) == c # Null /\ c # ""

\* the test guarding the drain of the buffer in the finally block
HasNext(v, buf) == IF v = "flush" THEN buf # Null ELSE Truthy(buf)

\* write(): `this.#active ? this.#defer(content) : this.#flush(content)`
WriteBranchAlwaysFlush(act) == "flush"
WriteBranch(act) == IF act THEN "defer" ELSE "flush"

\* #defer: `if (!this.#queued)`, a new shared promise is needed
NeedsQueuedAlways(q) == TRUE
NeedsQueued(q) == q = 0

\* #defer: `this.#buffer = content`, given the old and the new payload
BufferedKeepFirst(old, new) == IF old = "<null>" THEN new ELSE old
Buffered(old, new) == new

\* finally: `this.#active = false`
FinallyActiveStuck == TRUE
FinallyActive == FALSE

\* the path writeFile writes to, and the two ends of the rename
WriteFilePathTarget == "target"
WriteFilePath == "tmp"
RenameFrom == "tmp"
RenameTo == "target"

\* the callback pair invoked when a generation completes: this.#current
NotifiedWaiting == waiting
Notified == current

NewPromise == [status |-> "pending", err |-> 0, by |-> 0, hits |-> 0]

\* invoking done (e = 0) or fail (e # 0) of promise p from generation g;
\* a promise keeps its first settlement
Invoke(ps, p, e, g) ==
  [ps EXCEPT ![p] =
     IF @.status = "pending"
     THEN [status |-> IF e = 0 THEN "resolved" ELSE "rejected",
           err |-> e, by |-> g, hits |-> @.hits + 1]
     ELSE [@ EXCEPT !.hits = @.hits + 1]]

NewGen(d, c, caller, parent) ==
  [data |-> d, call |-> c, caller |-> caller, parent |-> parent,
   pc |-> "writeFile", progress |-> FALSE, err |-> 0, notified |-> 0,
   before |-> fs["target"]]

InFlight == {g \in DOMAIN gens : gens[g].pc \in {"writeFile", "rename", "renamed"}}

\* the generations whose finally block awaits, directly or not, generation g
RECURSIVE Chain(_, _)
Chain(gs, g) == IF gs[g].parent = 0 THEN {g} ELSE {g} \cup Chain(gs, gs[g].parent)

\* unwinding of the nested `await this.write(next)`: an error thrown by the
\* awaited call replaces the outcome of the awaiting one
RECURSIVE Unwind(_, _, _)
Unwind(gs, g, e) ==
  LET r == IF e # 0 THEN e ELSE gs[g].err
  IN IF gs[g].parent = 0 THEN [root |-> g, err |-> r]
     ELSE Unwind(gs, gs[g].parent, r)

\* a batch: the calls issued together, before any I/O of the generation
\* started by the first of them has happened
BatchOf ==
  LET open == {g \in InFlight : gens[g].caller # 0 /\ gens[g].pc = "writeFile"
                                 /\ ~gens[g].progress}
  IN IF open = {} THEN 0 ELSE gens[CHOOSE g \in open : TRUE].caller

\* history: the states of the handles of the calls issued so far, as a
\* caller sees them when it issues the next call
PriorStatus == {promises[calls[j].promise].status : j \in DOMAIN calls}

\* ------------------------------------------------------------ Init
Init ==
  /\ variant \in Variants
  /\ active = FALSE
  /\ current = 0
  /\ waiting = 0
  /\ queued = 0
  /\ buffer = Null
  /\ fs = [tmp |-> Absent,
           target |-> [data |-> PreContent, call |-> 0, complete |-> TRUE]]
  /\ gens = <<>>
  /\ calls = <<>>
  /\ promises = <<>>
  /\ bufferCall = 0

\* ------------------------------------------------------------ write()
\* a caller issues write(d)
Write(d) ==
  /\ Len(calls) < MaxCalls
  /\ LET i == Len(calls) + 1
         p == Len(promises) + 1
     IN IF WriteBranch(active) = "flush"
        THEN \* #flush up to the first await
             /\ active' = TRUE
             /\ gens' = Append(gens, NewGen(d, i, i, 0))
             /\ promises' = Append(promises, NewPromise)
             /\ calls' = Append(calls, [data |-> d, promise |-> p, head |-> TRUE,
                                        during |-> 0, batch |-> i,
                                        prior |-> PriorStatus])
             /\ UNCHANGED <<current, waiting, queued, buffer, bufferCall>>
        ELSE \* #defer
             /\ buffer' = Buffered(buffer, d)
             /\ bufferCall' = i
             /\ IF NeedsQueued(queued)
                THEN /\ queued' = p
                     /\ waiting' = p
                     /\ promises' = Append(promises, NewPromise)
                ELSE UNCHANGED <<queued, waiting, promises>>
             /\ calls' = Append(calls, [data |-> d, promise |-> queued', head |-> FALSE,
                                        during |-> IF InFlight = {} THEN 0
                                                   ELSE CHOOSE g \in InFlight : TRUE,
                                        batch |-> BatchOf,
                                        prior |-> PriorStatus])
             /\ UNCHANGED <<active, current, gens>>
  /\ UNCHANGED <<variant, fs>>

\* ------------------------------------------------------------ #flush
\* the block that runs when generation g leaves its try block: the callback
\* of #current (done when e = 0, fail otherwise), then the finally block,
\* which either starts the next generation or lets the chain of awaiting
\* calls return
Complete(g, e) ==
  LET n == Notified
      ps1 == IF n # 0 THEN Invoke(promises, n, e, g) ELSE promises
      gs1 == [gens EXCEPT ![g].err = e, ![g].notified = n]
  IN /\ current' = waiting
     /\ waiting' = 0
     /\ queued' = 0
     /\ IF HasNext(variant, buffer)
        THEN /\ buffer' = Null
             /\ bufferCall' = 0
             /\ active' = TRUE
             /\ gens' = Append([gs1 EXCEPT ![g].pc = "finally"],
                               NewGen(buffer, bufferCall, 0, g))
             /\ promises' = ps1
        ELSE /\ UNCHANGED <<buffer, bufferCall>>
             /\ active' = FinallyActive
             /\ gens' = [k \in DOMAIN gens |->
                           IF k \in Chain(gs1, g) THEN [gs1[k] EXCEPT !.pc = "done"]
                           ELSE gs1[k]]
             /\ LET u == Unwind(gs1, g, 0)
                    hp == calls[gens[u.root].caller].promise
                IN promises' = [ps1 EXCEPT ![hp] =
                      [status |-> IF u.err = 0 THEN "resolved" ELSE "rejected",
                       err |-> u.err, by |-> g, hits |-> @.hits]]
     /\ UNCHANGED <<variant, calls>>

\* writeFile has replaced part of the file it writes
WriteFileProgress(g) ==
  /\ gens[g].pc = "writeFile"
  /\ ~gens[g].progress
  /\ gens[g].data # ""
  /\ fs' = [fs EXCEPT ![WriteFilePath] =
              [data |-> gens[g].data, call |-> gens[g].call, complete |-> FALSE]]
  /\ gens' = [gens EXCEPT ![g].progress = TRUE]
  /\ UNCHANGED <<variant, active, current, waiting, queued, buffer, calls,
                 promises, bufferCall>>

\* `await writeFile(...)` returns; rename is issued
WriteFileDone(g) ==
  /\ gens[g].pc = "writeFile"
  /\ fs' = [fs EXCEPT ![WriteFilePath] =
              [data |-> gens[g].data, call |-> gens[g].call, complete |-> TRUE]]
  /\ gens' = [gens EXCEPT ![g].pc = "rename", ![g].progress = TRUE]
  /\ UNCHANGED <<variant, active, current, waiting, queued, buffer, calls,
                 promises, bufferCall>>

\* `await writeFile(...)` throws
WriteFileFail(g) ==
  /\ gens[g].pc = "writeFile"
  /\ Complete(g, g)
  /\ UNCHANGED fs

\* the storage layer performs the rename issued by generation g
RenameCommit(g) ==
  /\ gens[g].pc = "rename"
  /\ fs[RenameFrom] # Absent
  /\ fs' = [p \in DOMAIN fs |->
              IF p = RenameTo THEN fs[RenameFrom]
              ELSE IF p = RenameFrom THEN Absent ELSE fs[p]]
  /\ gens' = [gens EXCEPT ![g].pc = "renamed"]
  /\ UNCHANGED <<variant, active, current, waiting, queued, buffer, calls,
                 promises, bufferCall>>

\* `await rename(...)` returns
RenameResume(g) ==
  /\ gens[g].pc = "renamed"
  /\ Complete(g, 0)
  /\ UNCHANGED fs

\* `await rename(...)` throws
RenameFail(g) ==
  /\ gens[g].pc = "rename"
  /\ Complete(g, g)
  /\ UNCHANGED fs

IOStep ==
  \E g \in DOMAIN gens :
    \/ WriteFileDone(g)
    \/ WriteFileFail(g)
    \/ RenameCommit(g)
    \/ RenameResume(g)
    \/ RenameFail(g)

Next ==
  \/ \E d \in Contents : Write(d)
  \/ \E g \in DOMAIN gens : WriteFileProgress(g)
  \/ \E g \in DOMAIN gens : WriteFileDone(g)
  \/ \E g \in DOMAIN gens : WriteFileFail(g)
  \/ \E g \in DOMAIN gens : RenameCommit(g)
  \/ \E g \in DOMAIN gens : RenameResume(g)
  \/ \E g \in DOMAIN gens : RenameFail(g)

Spec == Init /\ [][Next]_vars

\* every writeFile and every rename the writer issued eventually returns or
\* throws; callers are free to stop calling write()
FairSpec == Spec /\ WF_vars(IOStep)

\* ================================================================ claims
Issued == DOMAIN calls
Status(i) == promises[calls[i].promise].status
Settled(i) == Status(i) # "pending"
Started(i) == \E g \in DOMAIN gens : gens[g].call = i
Target == fs["target"]

\* C1: at most one write-to-temp-and-rename sequence is in flight at any
\* time, and a write() issued while one is in flight starts no sequence.
C1_OneInFlight ==
  [][ /\ Cardinality(InFlight') <= 1
      /\ (InFlight # {} /\ Len(calls') > Len(calls)) =>
            /\ gens' = gens
            /\ ~calls'[Len(calls')].head ]_vars

C1_Witness ==
  /\ Cardinality(InFlight) = 1
  /\ \E i \in Issued : ~calls[i].head /\ ~Started(i) /\ bufferCall = i

\* C2: the target always holds either its content before the first write or
\* the complete payload of some write() call.
C2_TargetComplete ==
  /\ Target # Absent
  /\ Target.complete
  /\ \/ Target.call = 0 /\ Target.data = PreContent
     \/ Target.call \in Issued /\ Target.data = calls[Target.call].data

\* a generation is in the middle of its write-to-temp step, the temporary
\* file holds part of its payload, and the target holds an earlier payload
C2_Witness ==
  /\ ~fs["tmp"].complete
  /\ Target.call \in Issued
  /\ \E g \in InFlight : gens[g].pc = "writeFile" /\ gens[g].progress

\* C3: when a handle resolves, the target holds the payload of that call or
\* of a call submitted later.
C3_ResolvedNotOlder ==
  [][ \A i \in Issued :
        (Status(i) = "pending" /\ promises'[calls[i].promise].status = "resolved")
          => fs'["target"].call >= i ]_vars

\* a queued call resolved while the target holds a later call's payload
C3_Witness ==
  \E i \in Issued :
    /\ ~calls[i].head
    /\ Status(i) = "resolved"
    /\ Target.call > i

\* the first generation started at or after the submission of call i that
\* carries the payload of call i or of a later call, 0 when there is none
Carrier(i) ==
  LET c == {g \in DOMAIN gens : gens[g].call >= i}
  IN IF c = {} THEN 0 ELSE CHOOSE g \in c : \A h \in c : g <= h

\* generation g has renamed its temporary file over the target
Committed(g) ==
  \/ gens[g].pc = "renamed"
  \/ gens[g].pc \in {"finally", "done"} /\ gens[g].err = 0

\* generation g has thrown at its write-to-temp or at its rename step
Failed(g) == gens[g].err # 0

\* C4: a handle rejects only if the generation that carried the call's
\* payload, its own or the one that superseded it, failed.
C4_RejectOnlyOwnFailure ==
  \A i \in Issued :
    Status(i) = "rejected" => Carrier(i) # 0 /\ Failed(Carrier(i))

\* C5: the write() calls that arrive while the same generation is in flight
\* settle together, by the same generation and with the same outcome.
C5_SettleTogether ==
  \A i, j \in Issued :
    (~calls[i].head /\ ~calls[j].head /\ calls[i].during = calls[j].during)
      => promises[calls[i].promise] = promises[calls[j].promise]

\* two calls queued behind the same generation have both been settled
C5_Witness ==
  \E i, j \in Issued :
    /\ i < j
    /\ ~calls[i].head /\ ~calls[j].head
    /\ calls[i].during = calls[j].during
    /\ Settled(i) /\ Settled(j)
    /\ promises[calls[j].promise].by # 0

\* C6: every commit replaces the target's payload by the payload of a call
\* submitted later.
C6_MonotonicCommit ==
  [][ fs'["target"] # fs["target"] => fs'["target"].call > fs["target"].call ]_vars

\* two generations have committed, one after the other
C6_Witness ==
  \E g, h \in DOMAIN gens :
    /\ g < h
    /\ Committed(g) /\ Committed(h)
    /\ Target.call = gens[h].call

\* call i was replaced in the buffer by a later call before a generation
\* took it
Superseded(i) ==
  /\ ~calls[i].head
  /\ ~Started(i)
  /\ \E j \in Issued : j > i /\ ~calls[j].head

\* C7: every payload is either the payload of a started generation, or was
\* replaced in the buffer by a later call, or waits in the buffer for the
\* generation in flight to finish.
C7_NoPayloadDropped ==
  \A i \in Issued :
    \/ Started(i)
    \/ Superseded(i)
    \/ bufferCall = i /\ InFlight # {}

\* C8: when a generation fails, the waiters coalesced into it are rejected,
\* and a payload buffered meanwhile gets a generation of its own, whose
\* waiters are still unsettled.
C8_FailureIsolation ==
  [][ \A g \in InFlight :
        (gens'[g].err # 0) =>
          /\ current # 0 => promises'[current].status = "rejected"
          /\ gens[g].caller # 0 =>
               promises'[calls[gens[g].caller].promise].status \in {"pending", "rejected"}
          /\ buffer # Null =>
               /\ Len(gens') = Len(gens) + 1
               /\ gens'[Len(gens')].data = buffer
               /\ gens'[Len(gens')].call = bufferCall
               /\ gens'[Len(gens')].pc = "writeFile"
               /\ waiting # 0 => /\ current' = waiting
                                 /\ promises'[waiting].status = "pending" ]_vars

\* C9: every handle eventually resolves or rejects.
C9_EveryHandleSettles ==
  \A i \in 1..MaxCalls : (i \in Issued) ~> (i \in Issued /\ Settled(i))

\* C10: of the calls issued together on an idle writer, only the payload of
\* the last one is ever written to the target.
C10_OnlyLatestOfBatch ==
  \A i \in Issued :
    (Target.call = i /\ calls[i].batch # 0)
      => ~ \E j \in Issued : j > i /\ calls[j].batch = calls[i].batch

\* every call so far was issued before any earlier handle had settled
AllConcurrent == \A i \in Issued : calls[i].prior \subseteq {"pending"}

\* every call so far was issued after all earlier handles had resolved
AllSequential == \A i \in Issued : calls[i].prior \subseteq {"resolved"}

NoFailure == \A g \in DOMAIN gens : ~Failed(g)

\* C11: N calls issued on an idle writer before any of them settles, no
\* storage failure: once all handles have settled the target holds the
\* payload of the last call.
C11_FinalIsLast ==
  (Issued # {} /\ AllConcurrent /\ NoFailure /\ \A i \in Issued : Settled(i))
    => /\ Target.data = calls[Len(calls)].data
       /\ Target.call = Len(calls)

\* three or more concurrent calls, one of them coalesced away, all settled
C11_Witness ==
  /\ Len(calls) >= 3
  /\ AllConcurrent /\ NoFailure
  /\ \A i \in Issued : Settled(i)
  /\ \E i \in Issued : Superseded(i) /\ calls[i].data # calls[Len(calls)].data
  /\ Target.data = calls[Len(calls)].data

\* C12: sequentially awaited writes run one generation each, of their own,
\* equal payloads included; busy is false when each handle resolves and the
\* target then holds that call's payload.
C12_SequentialWrites ==
  [][ AllSequential' =>
        /\ Len(gens') = Len(calls')
        /\ \A i \in DOMAIN calls' :
             /\ Cardinality({g \in DOMAIN gens' : gens'[g].call = i}) = 1
             /\ gens'[i].call = i /\ gens'[i].caller = i
             /\ gens'[i].data = calls'[i].data
        /\ \A i \in Issued :
             (Status(i) = "pending" /\ promises'[calls'[i].promise].status = "resolved")
               => /\ ~active'
                  /\ fs'["target"].data = calls[i].data
                  /\ fs'["target"].call = i ]_vars

\* three awaited writes, the last two with the same payload, all resolved
C12_Witness ==
  /\ Len(calls) >= 3
  /\ AllSequential
  /\ \A i \in Issued : Status(i) = "resolved"
  /\ calls[2].data = calls[3].data
  /\ Len(gens) = Len(calls)
  /\ ~active

\* the generation started by the head call i, 0 when call i was queued
OwnGen(i) ==
  LET c == {g \in DOMAIN gens : gens[g].caller = i}
  IN IF c = {} THEN 0 ELSE CHOOSE g \in c : TRUE

\* C13: the handle of a write() that found the writer idle settles when its
\* own generation completes, with the outcome of that generation, whatever
\* the generations started later from the buffer do.
C13_HeadSettlesIndependently ==
  \A i \in Issued :
    (calls[i].head /\ gens[OwnGen(i)].pc \in {"finally", "done"})
      => /\ Settled(i)
         /\ (Status(i) = "rejected") <=> Failed(OwnGen(i))

\* C14: a generation started from the buffer carries the payload of the most
\* recent write() call, and the buffer is empty once it has been taken.
C14_BufferIsLatest ==
  [][ (Len(gens') > Len(gens) /\ gens'[Len(gens')].parent # 0) =>
        /\ gens'[Len(gens')].data = calls[Len(calls)].data
        /\ gens'[Len(gens')].call = Len(calls)
        /\ ~calls[Len(calls)].head
        /\ buffer' = Null ]_vars

\* a generation started from the buffer after an earlier buffered payload,
\* different from the one it carries, had been overwritten
C14_Witness ==
  \E g \in DOMAIN gens :
    /\ gens[g].parent # 0
    /\ \E i \in Issued :
         /\ i < gens[g].call
         /\ Superseded(i)
         /\ calls[i].during = calls[gens[g].call].during
         /\ calls[i].data # gens[g].data

\* C15: a generation that fails leaves the target as it was when the
\* generation started.
C15_FailedLeavesTarget ==
  [][ \A g \in InFlight :
        gens'[g].err # 0 => fs'["target"] = gens[g].before ]_vars

\* a generation failed at its rename step after an earlier one committed,
\* and the target still holds the earlier payload
C15_Witness ==
  \E g \in DOMAIN gens :
    /\ Failed(g)
    /\ gens[g].progress
    /\ fs["tmp"] # Absent /\ fs["tmp"].call = gens[g].call /\ fs["tmp"].complete
    /\ gens[g].before.call # 0
    /\ Target = gens[g].before

\* generation g leaves its try block in this step
Completes(g) == g \in InFlight /\ gens'[g].pc \in {"finally", "done"}

\* C16: when a generation completes, by success or by failure, the cleanup
\* runs once; with no payload buffered busy becomes false, and a write()
\* issued on the idle writer starts its generation at once.
C16_NoStuckActive ==
  [][ /\ \A g \in DOMAIN gens :
           Completes(g) =>
             /\ current' = waiting /\ waiting' = 0 /\ queued' = 0
             /\ gens'[g].notified = current
             /\ buffer = Null => (~active' /\ InFlight' = {})
      /\ (~active /\ Len(calls') > Len(calls)) =>
           /\ calls'[Len(calls')].head
           /\ Len(gens') = Len(gens) + 1
           /\ gens'[Len(gens')].caller = Len(calls')
           /\ gens'[Len(gens')].pc = "writeFile"
           /\ active' ]_vars

\* after a generation failed with nothing buffered, a later write() started
\* a generation of its own
C16_Witness ==
  \E g, h \in DOMAIN gens :
    /\ g < h
    /\ Failed(g) /\ gens[g].pc = "done"
    /\ ~ \E k \in DOMAIN gens : gens[k].parent = g
    /\ gens[h].caller # 0
    /\ gens[h].pc = "writeFile"

\* C17: busy is true exactly while a write-to-temp-and-rename sequence is in
\* flight.
C17_BusyIffInFlight == active <=> InFlight # {}

\* busy is true again for a generation started after a failed one, and a
\* call is queued behind it
C17_Witness ==
  /\ active
  /\ \E g \in InFlight : gens[g].pc = "renamed"
  /\ \E h \in DOMAIN gens : Failed(h)
  /\ buffer # Null

\* C18: every promise is settled at most once, every stored callback pair is
\* invoked at most once, and a generation invokes only the callbacks of the
\* calls coalesced into it.
C18_ExactlyOnce ==
  [][ /\ \A p \in DOMAIN promises :
           promises[p].status # "pending" =>
             /\ promises'[p].status = promises[p].status
             /\ promises'[p].err = promises[p].err
      /\ \A p \in DOMAIN promises' : promises'[p].hits <= 1
      /\ \A g \in DOMAIN gens' :
           gens'[g].notified # 0 =>
             calls'[gens'[g].call].promise = gens'[g].notified ]_vars

\* C19: the buffer, the shared queued promise and the waiting callback pair
\* are set or empty together, and are set only while a generation is in
\* flight.
C19_SlotsTogether ==
  /\ (buffer # Null) <=> (queued # 0)
  /\ (queued # 0) <=> (waiting # 0)
  /\ buffer # Null => InFlight # {}

\* C20: an idle writer holds no unsettled waiters and no unwritten payload.
C20_IdleIsClean ==
  (~active /\ InFlight = {}) =>
    /\ current = 0
    /\ buffer = Null
    /\ \A i \in Issued : ~calls[i].head => Settled(i)

====
